---- MODULE Spec2Model ----
(***************************************************************************)
(* A model of the two subsystems of postgres-loose-quadtree:               *)
(*                                                                         *)
(*   A. src/backend/access/gist/gistsplit.c : gistSplitByKey, the          *)
(*      multi-column four-way page split (NW / NE / SW / SE);              *)
(*   B. contrib/loose_quadtree/_loose_quadtree.c : the SP-GiST support     *)
(*      functions of the loose quadtree over boxes (getQuadrant, choose,   *)
(*      picksplit, nextRectBox, the eleven region tests, inner and leaf    *)
(*      consistent).                                                       *)
(*                                                                         *)
(* Coordinates.  A float8 coordinate is held as an integer number of       *)
(* half units (the value 3 stands for 1.5).  Every quantity the code       *)
(* derives from such coordinates (differences, the centroid                *)
(* low + (high - low) / 2.0, a width divided by 2.0) is then a multiple of *)
(* a quarter and is exact in IEEE double arithmetic, so integer arithmetic *)
(* on the scaled values reproduces the double arithmetic bit for bit,      *)
(* while the conversions double -> int of the code (truncation toward      *)
(* zero) remain visible.                                                   *)
(***************************************************************************)
EXTENDS Integers, Sequences, FiniteSets, TLC

VARIABLES
    \* ---- gistsplit.c ----
    len,            \* gistSplitByKey's len: number of tuples in itup[]
    natts,          \* giststate->tupdesc->natts
    isNull,         \* isNull[i][a]: index_getattr(itup[i-1], a+1) is NULL
    attno,          \* column of the gistSplitByKey frame now running
    splitVector,    \* v->splitVector: spl_NW, spl_NE, spl_SW, spl_SE, as sequences
    spl_isnull,     \* v->spl_NWisnull[] .. v->spl_SEisnull[], by group
    spl_attr,       \* v->spl_NWattr[] .. v->spl_SEattr[], by group
    userSplit,      \* what picksplitFn[attno] left in sv (NoSplit: never called)
    branch,         \* which branch of gistSplitByKey produced the split
    zeroPenalty,    \* the positions that cost nothing to move between the
                    \* groups of the picksplit on column attno (don't-cares)
    subSplitMap,    \* map[] of the sub-split made for the don't-cares (<<>>:
                    \* none made)
    splitPc,        \* "call": a frame is entered; "done": the top call returned
    \* ---- _loose_quadtree.c: one call of getQuadrant ----
    refBox,         \* getQuadrant's centroid argument (the reference box)
    candBox,        \* getQuadrant's inBox argument
    quadOut,        \* getQuadrant's return value
    quadPc,         \* "call" / "return"
    \* ---- _loose_quadtree.c: a descent with its traversal value ----
    traversalValue, \* in->traversalValue: the RectBox of the node reached
    travDepth,      \* number of nextRectBox steps from the root
    regStrategy,    \* strategy of the last region test ("none": no test yet)
    regFlag,        \* what the region test returned on (traversalValue, query)
    regExact,       \* what the leaf-level test returns on (box, query)
    \* ---- _loose_quadtree.c: one inner node, spgChooseIn / spgChooseOut ----
    prefixDatum,    \* the node's prefix (picksplit's centroid box)
    allTheSame,     \* in->allTheSame
    level,          \* in->level
    leafDatum,      \* in->leafDatum: the box being inserted
    levelAdd,       \* out->result.matchNode.levelAdd
    nodeN,          \* out->result.matchNode.nodeN
    floatToInt,     \* how this build converts a non-finite double to int
    boxNewLevel,    \* choose's local boxNewLevel (the candidate level)
    firstNewLevel,  \* boxNewLevel of the preceding call, same prefix
    choosePc,       \* "call" / "chosen" / "doubled"
    \* ---- _loose_quadtree.c: picksplit, inserts and a scan of one node ----
    datums,         \* in->datums of picksplit, a sequence of boxes
    nodes,          \* nodes[n]: the boxes stored under child n
    scankeys,       \* in->scankeys of inner_consistent
    nodeNumbers,    \* out->nodeNumbers, a sequence
    traversalValues,\* out->traversalValues, a sequence
    inserts,        \* boxes added through choose since the picksplit
    scanResult,     \* how a consistent call ended: "void" / "true" / "false"
                    \* (its result) or "error" (elog(ERROR), no result)
    treePc,         \* "leaf" / "inner" / "scanned", or "scan" /
                    \* "inner_consistent" / "leaf_consistent"
    \* ---- _loose_quadtree.c: the objects of one consistent call ----
    heap,           \* the palloc'd RectBox objects: address -> RectBox
    parentAddr,     \* in->traversalValue: an address, or NULL
    childAddrs,     \* out->traversalValues: a sequence of addresses
    callDepth,      \* the number of inner nodes the scan has visited
    recheck,        \* out->recheck of leaf_consistent
    arrayReads      \* the elements of its sorted arrays picksplit has read

splitVars == <<len, natts, isNull, attno, splitVector, spl_isnull, spl_attr,
               userSplit, branch, zeroPenalty, subSplitMap, splitPc>>
quadVars == <<refBox, candBox, quadOut, quadPc>>
travVars == <<traversalValue, travDepth, regStrategy, regFlag, regExact>>
nodeVars == <<prefixDatum, allTheSame, level, leafDatum, levelAdd, nodeN,
              floatToInt>>
chooseVars == <<boxNewLevel, firstNewLevel, choosePc>>
treeVars == <<datums, nodes, scankeys, nodeNumbers, traversalValues, inserts,
              scanResult, treePc>>
callVars == <<heap, parentAddr, childAddrs, callDepth, recheck, arrayReads>>
quadtreeVars == <<quadVars, travVars, nodeVars, chooseVars, treeVars, callVars>>

vars == <<splitVars, quadtreeVars>>

-----------------------------------------------------------------------------
(* Bounds of the model *)

\* most tuples on the page being split
MaxLen == 4
\* most tuples of a long one-column page
MaxEntries == 40
\* most index columns
MaxAtts == 2
\* largest coordinate, in half units, of the boxes given to getQuadrant
MaxQuadCoord == 2
\* largest coordinate, in half units, of the prefixes, boxes and queries of a
\* descent
MaxTravCoord == 1
\* most nextRectBox steps of a descent
MaxTravDepth == 2
\* largest coordinate, in half units, of the prefixes and boxes given to choose
MaxChooseCoord == 10
\* longest side, in half units, of the boxes given to choose
MaxBoxSide == 3
\* largest in->level given to choose
MaxLevel == 1
\* largest coordinate, in whole units, of the boxes and queries of the tree
MaxTreeCoord == 1
\* most tuples given to picksplit
MaxTuples == 2
\* most boxes inserted after the picksplit
MaxInserts == 1
\* most scan keys of a scan
MaxKeys == 1
\* most scan keys of a consistent call made on its own
MaxScanKeys == 2

-----------------------------------------------------------------------------
(* Helpers *)

Min(a, b) == IF a <= b THEN a ELSE b
Max(a, b) == IF a >= b THEN a ELSE b

\* C's integer division and double -> int conversion: truncation toward zero
Trunc(a, b) == IF a >= 0 THEN a \div b ELSE -((-a) \div b)

SeqRange(s) == {s[k] : k \in 1..Len(s)}

RECURSIVE SortedSeq(_)
SortedSeq(S) ==
    IF S = {} THEN <<>>
    ELSE LET m == CHOOSE x \in S : \A y \in S : x <= y
         IN  <<m>> \o SortedSeq(S \ {m})

-----------------------------------------------------------------------------
(* A. gistsplit.c                                                          *)

Groups == {"NW", "NE", "SW", "SE"}

\* off.h: InvalidOffsetNumber, the old picksplit API's end-of-group marker,
\* and FirstOffsetNumber
InvalidOffsetNumber == 0
FirstOffsetNumber == 1

Atts == 0..(natts - 1)

NoSplit == [spl_NW |-> <<>>, spl_NE |-> <<>>, spl_SW |-> <<>>, spl_SE |-> <<>>]

GroupSeq(sv, g) ==
    CASE g = "NW" -> sv.spl_NW
      [] g = "NE" -> sv.spl_NE
      [] g = "SW" -> sv.spl_SW
      [] OTHER    -> sv.spl_SE

\* gistSplitByKey's first loop: offNullTuples[], the positions whose attno
\* column is NULL, in increasing order
offNullTuples(a) == SortedSeq({i \in 1..len : isNull[i][a]})

\* gistSplitQuarters(v, len): the loop runs i = 1 .. len
gistSplitQuarters(n) ==
    [spl_NW |-> SortedSeq({i \in 1..n : i < n \div 4}),
     spl_NE |-> SortedSeq({i \in 1..n : ~(i < n \div 4) /\ i < n \div 2}),
     spl_SW |-> SortedSeq({i \in 1..n : ~(i < n \div 2) /\ i < (3 * n) \div 4}),
     spl_SE |-> SortedSeq({i \in 1..n : ~(i < n \div 4) /\ ~(i < n \div 2)
                                         /\ ~(i < (3 * n) \div 4)})]

\* genericPickSplit with the strict comparisons of gistSplitQuarters
genericPickSplit_strict(maxoff) ==
    LET n == maxoff - FirstOffsetNumber + 1
        I == FirstOffsetNumber..maxoff
    IN  [spl_NW |-> SortedSeq({i \in I : i < n \div 4}),
         spl_NE |-> SortedSeq({i \in I : ~(i < n \div 4) /\ i < n \div 2}),
         spl_SW |-> SortedSeq({i \in I : ~(i < n \div 2) /\ i < (3 * n) \div 4}),
         spl_SE |-> SortedSeq({i \in I : ~(i < (3 * n) \div 4)})]

\* genericPickSplit with the third threshold equal to the second
genericPickSplit_noSW(maxoff) ==
    LET q1 == (maxoff - FirstOffsetNumber + 1) \div 4
        q2 == (maxoff - FirstOffsetNumber + 1) \div 2
        I  == FirstOffsetNumber..maxoff
    IN  [spl_NW |-> SortedSeq({i \in I : i <= q1}),
         spl_NE |-> SortedSeq({i \in I : ~(i <= q1) /\ i <= q2}),
         spl_SW |-> <<>>,
         spl_SE |-> SortedSeq({i \in I : ~(i <= q1) /\ ~(i <= q2)})]

\* genericPickSplit: maxoff = entryvec->n - 1, the loop runs
\* i = FirstOffsetNumber .. maxoff
genericPickSplit(maxoff) ==
    LET q1 == (maxoff - FirstOffsetNumber + 1) \div 4
        q2 == (maxoff - FirstOffsetNumber + 1) \div 2
        q3 == (3 * (maxoff - FirstOffsetNumber + 1)) \div 4
        I  == FirstOffsetNumber..maxoff
    IN  [spl_NW |-> SortedSeq({i \in I : i <= q1}),
         spl_NE |-> SortedSeq({i \in I : ~(i <= q1) /\ i <= q2}),
         spl_SW |-> SortedSeq({i \in I : ~(i <= q1) /\ ~(i <= q2) /\ i <= q3}),
         spl_SE |-> SortedSeq({i \in I : ~(i <= q1) /\ ~(i <= q2) /\ ~(i <= q3)})]

\* the mixed-null branch sending the NULLs of position i % 3 = 0 to NE
MixedNullSplit_nullsInNE(a) ==
    LET nulls == {i \in 1..len : isNull[i][a]}
        rest  == (1..len) \ nulls
    IN  [spl_NW |-> SortedSeq({i \in nulls : ~(i % 3 = 0)}),
         spl_NE |-> SortedSeq({i \in 1..len : i % 3 = 0}),
         spl_SW |-> SortedSeq({i \in rest : i % 3 = 1}),
         spl_SE |-> SortedSeq({i \in rest : ~(i % 3 = 0) /\ ~(i % 3 = 1)})]

\* the mixed-null branch without the "offNullTuples[j] == i" skip: the NULL
\* positions are dealt out by i % 3 as well
MixedNullSplit_noskip(a) ==
    [spl_NW |-> offNullTuples(a),
     spl_NE |-> SortedSeq({i \in 1..len : i % 3 = 0}),
     spl_SW |-> SortedSeq({i \in 1..len : i % 3 = 1}),
     spl_SE |-> SortedSeq({i \in 1..len : ~(i % 3 = 0) /\ ~(i % 3 = 1)})]

\* the mixed-null branch of gistSplitByKey: the NULLs go to NW, every other
\* position i goes to NE, SW or SE by i % 3
MixedNullSplit(a) ==
    LET nulls == {i \in 1..len : isNull[i][a]}
        rest  == (1..len) \ nulls
    IN  [spl_NW |-> offNullTuples(a),
         spl_NE |-> SortedSeq({i \in rest : i % 3 = 0}),
         spl_SW |-> SortedSeq({i \in rest : i % 3 = 1}),
         spl_SE |-> SortedSeq({i \in rest : ~(i % 3 = 0) /\ ~(i % 3 = 1)})]

\* What the opclass PickSplit method (picksplitFn[attno], called at
\* gistUserPicksplit) may leave in sv for n entries: every assignment of the
\* positions 1..n to the four groups, each group listed in increasing order;
\* with the old API the group holding the last position ends in
\* InvalidOffsetNumber instead.  Assignments leaving a group empty are the
\* failed picksplits.
PickSplitGroup(f, g, n, oldApi) ==
    LET s == SortedSeq({i \in 1..n : f[i] = g})
    IN  IF oldApi /\ f[n] = g
        THEN [s EXCEPT ![Len(s)] = InvalidOffsetNumber]
        ELSE s

PickSplitResults(n) ==
    {[spl_NW |-> PickSplitGroup(f, "NW", n, oldApi),
      spl_NE |-> PickSplitGroup(f, "NE", n, oldApi),
      spl_SW |-> PickSplitGroup(f, "SW", n, oldApi),
      spl_SE |-> PickSplitGroup(f, "SE", n, oldApi)] :
        f \in [1..n -> Groups], oldApi \in BOOLEAN}

\* gistUserPicksplit's test of the method's answer
PickSplitFailed(sv) ==
    Len(sv.spl_NW) = 0 \/ Len(sv.spl_NE) = 0 \/ Len(sv.spl_SW) = 0
        \/ Len(sv.spl_SE) = 0

\* the compatibility hack applied to every group, marker or not
FixLastOffset_always(s, n) == [s EXCEPT ![Len(s)] = n - 1]

\* "hack for compatibility with old picksplit API": a group whose last entry
\* is InvalidOffsetNumber gets entryvec->n - 1 there
FixLastOffset(s, n) ==
    IF s[Len(s)] = InvalidOffsetNumber THEN [s EXCEPT ![Len(s)] = n - 1] ELSE s

\* gistUserPicksplit: the split left in v->splitVector, entryvec->n = len + 1
gistUserPicksplit(sv, n) ==
    IF PickSplitFailed(sv)
    THEN genericPickSplit(n - 1)
    ELSE [spl_NW |-> FixLastOffset(sv.spl_NW, n),
          spl_NE |-> FixLastOffset(sv.spl_NE, n),
          spl_SW |-> FixLastOffset(sv.spl_SW, n),
          spl_SE |-> FixLastOffset(sv.spl_SE, n)]

\* gistUserPicksplit's result: whether don't-care tuples remain to be
\* redistributed on the next column.  The search for don't-cares is
\* commented out in this repository, so the function always returns false.
gistUserPicksplitReturns == FALSE

\* gistMakeUnionItVec for one column: the union key of the tuples in S that
\* are not NULL in column a, held as the set of positions it covers; the
\* column's union is NULL when that set is empty.
gistMakeUnionItVec(S, a) == {i \in S : ~isNull[i][a]}

\* gistunionsubkey skipping position 1 as a don't-care
gistunionsubkeyAttr_dontcare(sv) ==
    [g \in Groups |-> [a \in Atts |->
        gistMakeUnionItVec(SeqRange(GroupSeq(sv, g)) \ {1}, a)]]

\* gistunionsubkey with spl_dontcare = NULL: the union keys of all columns,
\* recomputed for each group over its members
gistunionsubkeyAttr(sv) ==
    [g \in Groups |-> [a \in Atts |->
        gistMakeUnionItVec(SeqRange(GroupSeq(sv, g)), a)]]

gistunionsubkeyIsnull(sv) ==
    [g \in Groups |-> [a \in Atts |->
        gistMakeUnionItVec(SeqRange(GroupSeq(sv, g)), a) = {}]]

\* the union datum a PickSplit method (the opclass's or genericPickSplit)
\* forms for each of its groups: the union of the group's entries
PickSplitDatum(sv, g) == SeqRange(GroupSeq(sv, g))

\* no box (a BOX of zeros), no RectBox: what a variable holds while the
\* function that fills it has not run
NoBox == [low |-> [x |-> 0, y |-> 0], high |-> [x |-> 0, y |-> 0]]
NoRange == [low |-> 0, high |-> 0]
NoRectBox == [range_box_x |-> [left |-> NoRange, right |-> NoRange],
              range_box_y |-> [left |-> NoRange, right |-> NoRange]]

\* no getQuadrant call
QuadIdle ==
    /\ refBox = NoBox
    /\ candBox = NoBox
    /\ quadOut = 0
    /\ quadPc = "idle"

\* no descent
TravIdle ==
    /\ traversalValue = NoRectBox
    /\ travDepth = 0
    /\ regStrategy = "none"
    /\ regFlag = FALSE
    /\ regExact = FALSE

\* no inner node
NodeIdle ==
    /\ prefixDatum = NoBox
    /\ allTheSame = FALSE
    /\ level = 0
    /\ leafDatum = NoBox
    /\ levelAdd = 0
    /\ nodeN = 0
    /\ floatToInt = "none"

\* no choose call
ChooseIdle ==
    /\ boxNewLevel = 0
    /\ firstNewLevel = 0
    /\ choosePc = "idle"

\* no picksplit, no scan
TreeIdle ==
    /\ datums = <<>>
    /\ nodes = <<>>
    /\ scankeys = <<>>
    /\ nodeNumbers = <<>>
    /\ traversalValues = <<>>
    /\ inserts = 0
    /\ scanResult = "none"
    /\ treePc = "idle"

\* the address NULL
NULL == 0

\* no object allocated, no node visited
CallIdle ==
    /\ heap = <<>>
    /\ parentAddr = NULL
    /\ childAddrs = <<>>
    /\ callDepth = 0
    /\ recheck = FALSE
    /\ arrayReads = {}

\* nothing of _loose_quadtree.c runs
QuadtreeIdle ==
    QuadIdle /\ TravIdle /\ NodeIdle /\ ChooseIdle /\ TreeIdle /\ CallIdle

\* nothing of gistsplit.c runs
SplitIdle ==
    /\ len = 0
    /\ natts = 0
    /\ isNull = <<>>
    /\ attno = 0
    /\ splitVector = NoSplit
    /\ spl_isnull = [g \in Groups |-> <<>>]
    /\ spl_attr = [g \in Groups |-> <<>>]
    /\ userSplit = NoSplit
    /\ branch = "none"
    /\ zeroPenalty = {}
    /\ subSplitMap = <<>>
    /\ splitPc = "idle"

\* The caller of gistSplitByKey (gistSplitByKey's header comment): attno = 0,
\* the spl_XXisnull arrays all true; any page of 2..MaxLen tuples over
\* 1..MaxAtts columns, with any pattern of NULLs.
SplitInit ==
    /\ len \in 2..MaxLen
    /\ natts \in 1..MaxAtts
    /\ isNull \in [1..len -> [0..(natts - 1) -> BOOLEAN]]
    /\ attno = 0
    /\ splitVector = NoSplit
    /\ spl_isnull = [g \in Groups |-> [a \in 0..(natts - 1) |-> TRUE]]
    /\ spl_attr = [g \in Groups |-> [a \in 0..(natts - 1) |-> {}]]
    /\ userSplit = NoSplit
    /\ branch = "none"
    /\ zeroPenalty = {}
    /\ subSplitMap = <<>>
    /\ splitPc = "call"

\* The end of the outermost gistSplitByKey frame (attno = 0), reached when
\* the frame that made the split returns through its callers, none of which
\* does anything more: with more than one column the union keys of all
\* columns are recomputed.
SplitReturn(sv, attr, isn) ==
    /\ splitVector' = sv
    /\ IF natts > 1
       THEN /\ spl_attr' = gistunionsubkeyAttr(sv)
            /\ spl_isnull' = gistunionsubkeyIsnull(sv)
       ELSE /\ spl_attr' = attr
            /\ spl_isnull' = isn
    /\ splitPc' = "done"

\* the all-NULL branch marking only the NW group
AllGroupsNull_onlyNW(a) == [spl_isnull EXCEPT !["NW"][a] = TRUE, !["NE"][a] = FALSE]

\* v->spl_NWisnull[attno] = ... = v->spl_SEisnull[attno] = true
AllGroupsNull(a) == [g \in Groups |-> [spl_isnull[g] EXCEPT ![a] = TRUE]]

\* the recursive call made with the column index left as it is
NextColumn_same(a) == a

\* the column index handed to the recursive call: attno + 1
NextColumn(a) == a + 1

\* gistSplitByKey, nOffNullTuples == len and a next column exists: the frame
\* calls itself for attno + 1 on the same tuples
SplitAllNullNextColumn ==
    /\ splitPc = "call"
    /\ \A i \in 1..len : isNull[i][attno]
    /\ attno + 1 < natts
    /\ spl_isnull' = AllGroupsNull(attno)
    /\ attno' = NextColumn(attno)
    /\ UNCHANGED <<len, natts, isNull, splitVector, spl_attr, userSplit,
                   branch, zeroPenalty, subSplitMap, splitPc>>
    /\ UNCHANGED quadtreeVars

\* gistSplitByKey, nOffNullTuples == len on the last column: gistSplitQuarters
SplitAllNullQuarters ==
    /\ splitPc = "call"
    /\ \A i \in 1..len : isNull[i][attno]
    /\ ~(attno + 1 < natts)
    /\ SplitReturn(gistSplitQuarters(len), spl_attr, AllGroupsNull(attno))
    /\ branch' = "quarters"
    /\ UNCHANGED <<len, natts, isNull, attno, userSplit, zeroPenalty,
                   subSplitMap>>
    /\ UNCHANGED quadtreeVars

\* gistSplitByKey, 0 < nOffNullTuples < len
SplitMixedNull ==
    /\ splitPc = "call"
    /\ \E i \in 1..len : isNull[i][attno]
    /\ \E i \in 1..len : ~isNull[i][attno]
    /\ LET sv  == MixedNullSplit(attno)
           isn == [spl_isnull EXCEPT !["NW"][attno] = TRUE]
       IN  IF attno = 0 /\ natts = 1
           THEN SplitReturn(sv, gistunionsubkeyAttr(sv), gistunionsubkeyIsnull(sv))
           ELSE SplitReturn(sv, spl_attr, isn)
    /\ branch' = "mixed"
    /\ UNCHANGED <<len, natts, isNull, attno, userSplit, zeroPenalty,
                   subSplitMap>>
    /\ UNCHANGED quadtreeVars

\* gistSplitByKey, nOffNullTuples == 0, once the opclass method has left raw
\* in v->splitVector: gistUserPicksplit, which returns false, so that the
\* block that redistributes don't-care tuples (and builds map[]) is skipped
UserPicksplitFrame(raw) ==
    LET sv == gistUserPicksplit(raw, len + 1)
    IN  /\ userSplit' = raw
        /\ ~gistUserPicksplitReturns
        /\ UNCHANGED subSplitMap
        /\ SplitReturn(sv,
              [g \in Groups |->
                  [spl_attr[g] EXCEPT ![attno] = PickSplitDatum(sv, g)]],
              [g \in Groups |-> [spl_isnull[g] EXCEPT ![attno] = FALSE]])
        /\ branch' = IF PickSplitFailed(raw) THEN "generic" ELSE "user"

\* gistSplitByKey, nOffNullTuples == 0: gistUserPicksplit, which returns false
SplitUserPicksplit ==
    /\ splitPc = "call"
    /\ \A i \in 1..len : ~isNull[i][attno]
    /\ \E raw \in PickSplitResults(len) : UserPicksplitFrame(raw)
    /\ UNCHANGED <<len, natts, isNull, attno, zeroPenalty>>
    /\ UNCHANGED quadtreeVars

SplitNext ==
    \/ SplitAllNullNextColumn
    \/ SplitAllNullQuarters
    \/ SplitMixedNull
    \/ SplitUserPicksplit

SplitSpecInit == SplitInit /\ QuadtreeIdle

SpecSplit == SplitSpecInit /\ [][SplitNext]_vars


\* The same frames on long pages: one column, 2..MaxEntries tuples that are
\* all NULL or all non-NULL in it.
LongPageInit ==
    /\ len \in 2..MaxEntries
    /\ natts = 1
    /\ isNull \in {[i \in 1..len |-> [a \in 0..0 |-> b]] : b \in BOOLEAN}
    /\ attno = 0
    /\ splitVector = NoSplit
    /\ spl_isnull = [g \in Groups |-> [a \in 0..0 |-> TRUE]]
    /\ spl_attr = [g \in Groups |-> [a \in 0..0 |-> {}]]
    /\ userSplit = NoSplit
    /\ branch = "none"
    /\ zeroPenalty = {}
    /\ subSplitMap = <<>>
    /\ splitPc = "call"

\* the failed picksplits that put every position into one group
OneSidedResults(n) ==
    {[spl_NW |-> PickSplitGroup([i \in 1..n |-> g], "NW", n, oldApi),
      spl_NE |-> PickSplitGroup([i \in 1..n |-> g], "NE", n, oldApi),
      spl_SW |-> PickSplitGroup([i \in 1..n |-> g], "SW", n, oldApi),
      spl_SE |-> PickSplitGroup([i \in 1..n |-> g], "SE", n, oldApi)] :
        g \in Groups, oldApi \in BOOLEAN}

\* gistSplitByKey, nOffNullTuples == 0, the opclass method failing one-sidedly
SplitOneSidedPicksplit ==
    /\ splitPc = "call"
    /\ \A i \in 1..len : ~isNull[i][attno]
    /\ \E raw \in OneSidedResults(len) : UserPicksplitFrame(raw)
    /\ UNCHANGED <<len, natts, isNull, attno, zeroPenalty>>
    /\ UNCHANGED quadtreeVars

LongPageNext ==
    \/ SplitAllNullQuarters
    \/ SplitOneSidedPicksplit

LongPageSpecInit == LongPageInit /\ QuadtreeIdle

SpecLongPage == LongPageSpecInit /\ [][LongPageNext]_vars

\* The frames of gistSplitByKey on the pages of SplitInit, the opclass method
\* failing one-sidedly whenever it is called.
ColumnsNext ==
    \/ SplitAllNullNextColumn
    \/ SplitAllNullQuarters
    \/ SplitMixedNull
    \/ SplitOneSidedPicksplit

\* gistSplitByKey is straight-line C code run by one backend: a frame that
\* can take its next step takes it.
SpecColumnsFair == SplitSpecInit /\ [][ColumnsNext]_vars /\ WF_vars(ColumnsNext)

\* The sets of positions findDontCares could mark on a page of n tuples:
\* whether a tuple can join either group at zero penalty depends on the keys
\* and on the opclass penalty method.
DontCareSets(n) == SUBSET (1..n)

\* gistSplitByKey, nOffNullTuples == 0, on keys of which any may be
\* don't-cares of the picksplit's groups
SplitUserPicksplitDontCares ==
    /\ splitPc = "call"
    /\ \A i \in 1..len : ~isNull[i][attno]
    /\ \E raw \in PickSplitResults(len), dc \in DontCareSets(len) :
          /\ UserPicksplitFrame(raw)
          /\ zeroPenalty' = dc
    /\ UNCHANGED <<len, natts, isNull, attno>>
    /\ UNCHANGED quadtreeVars

DontCareNext ==
    \/ SplitAllNullNextColumn
    \/ SplitAllNullQuarters
    \/ SplitMixedNull
    \/ SplitUserPicksplitDontCares

SpecDontCare == SplitSpecInit /\ [][DontCareNext]_vars

-----------------------------------------------------------------------------
(* Claims about gistsplit.c, checked under SpecSplit                       *)

AllMembers(sv) == sv.spl_NW \o sv.spl_NE \o sv.spl_SW \o sv.spl_SE

\* C1: when the top-level gistSplitByKey call has returned, every position
\* 1..N is in exactly one of NW, NE, SW, SE and the groups hold nothing else,
\* whatever the NULL pattern and whatever the PickSplit method returned (a
\* four-way partition, with or without the old end marker, or an answer with
\* an empty group).
C1_EachPositionInExactlyOneGroup ==
    splitPc = "done" =>
        /\ Len(AllMembers(splitVector)) = len
        /\ SeqRange(AllMembers(splitVector)) = 1..len

\* C1's case: a page of at least four tuples whose first column is all NULL,
\* split on the second column, where some but not all keys are NULL.
C1_Witness ==
    /\ splitPc = "done"
    /\ len >= 4
    /\ attno = 1
    /\ branch = "mixed"
    /\ Len(splitVector.spl_NW) >= 2

\* the positional quartering: position i of n goes to NW up to n/4, to NE up
\* to n/2, to SW up to 3n/4 (integer quotients), else to SE
QuarterOf(i, n) ==
    IF 4 * i <= n THEN "NW"
    ELSE IF 2 * i <= n THEN "NE"
    ELSE IF 4 * i <= 3 * n THEN "SW"
    ELSE "SE"

\* C10: once the PickSplit method has returned an answer with an empty
\* group, the call has run to completion and the four groups are the
\* positional quartering of 1..N, not the method's membership.
C10_FailedPicksplitFallsBackToQuartering ==
    (userSplit # NoSplit /\ \E g \in Groups : GroupSeq(userSplit, g) = <<>>) =>
        /\ splitPc = "done"
        /\ \A g \in Groups :
              GroupSeq(splitVector, g) =
                  SortedSeq({i \in 1..len : QuarterOf(i, len) = g})

\* C10's case: the method put all four tuples of a page in two groups and
\* left two empty; the result differs from what it returned.
C10_Witness ==
    /\ splitPc = "done"
    /\ len = 4
    /\ userSplit.spl_NW = <<>>
    /\ userSplit.spl_SE = <<>>
    /\ Len(userSplit.spl_NE) = 2
    /\ splitVector.spl_NW = <<1>>
    /\ splitVector.spl_SE = <<4>>

-----------------------------------------------------------------------------
(* B. _loose_quadtree.c : boxes, quadrants, traversal values               *)

\* a BOX (utils/geo_decls.h): two corners, low <= high on both axes;
\* coordinates in half units
Box(lx, ly, hx, hy) ==
    [low |-> [x |-> lx, y |-> ly], high |-> [x |-> hx, y |-> hy]]

\* the ordered boxes with corners at 0 .. m half units
BoxesUpTo(m) ==
    {b \in [low : [x : 0..m, y : 0..m], high : [x : 0..m, y : 0..m]] :
        b.low.x <= b.high.x /\ b.low.y <= b.high.y}

\* getQuadrant's centroid coordinate low + (high - low) / 2.0, in quarter
\* units (four times the double the code computes)
CentroidOf(low, high) == 2 * low + (high - low)

\* getQuadrant with > for >= in the X comparison
getQuadrant_strictX(centroid, inBox) ==
    LET centroidX    == CentroidOf(centroid.low.x, centroid.high.x)
        centroidY    == CentroidOf(centroid.low.y, centroid.high.y)
        newCentroidX == CentroidOf(inBox.low.x, inBox.high.x)
        newCentroidY == CentroidOf(inBox.low.y, inBox.high.y)
    IN  IF newCentroidY >= centroidY
        THEN (IF newCentroidX > centroidX THEN 1 ELSE 0)
        ELSE (IF newCentroidX > centroidX THEN 3 ELSE 2)

\* getQuadrant(centroid, inBox)
getQuadrant(centroid, inBox) ==
    LET centroidX    == CentroidOf(centroid.low.x, centroid.high.x)
        centroidY    == CentroidOf(centroid.low.y, centroid.high.y)
        newCentroidX == CentroidOf(inBox.low.x, inBox.high.x)
        newCentroidY == CentroidOf(inBox.low.y, inBox.high.y)
    IN  IF newCentroidY >= centroidY
        THEN (IF newCentroidX >= centroidX THEN 1 ELSE 0)
        ELSE (IF newCentroidX >= centroidX THEN 3 ELSE 2)

\* get_float8_infinity(): a value above every coordinate of the model
PosInf == 1000000
NegInf == -PosInf

\* getRangeBox(box): left = the x interval, right = the y interval
getRangeBox(box) ==
    [left  |-> [low |-> box.low.x, high |-> box.high.x],
     right |-> [low |-> box.low.y, high |-> box.high.y]]

\* initRectBox()
initRectBox ==
    [range_box_x |-> [left  |-> [low |-> NegInf, high |-> PosInf],
                      right |-> [low |-> NegInf, high |-> PosInf]],
     range_box_y |-> [left  |-> [low |-> NegInf, high |-> PosInf],
                      right |-> [low |-> NegInf, high |-> PosInf]]]

\* quadrant & mask, for mask = 8, 4, 2, 1
BitSet(quadrant, mask) == (quadrant \div mask) % 2 = 1

\* the assignment of nextRectBox with the two bounds exchanged
SetBound_inverted(r, isSet, c) ==
    IF isSet THEN [r EXCEPT !.high = c] ELSE [r EXCEPT !.low = c]

\* one "if (quadrant & mask) r.low = c; else r.high = c;" of nextRectBox
SetBound(r, isSet, c) ==
    IF isSet THEN [r EXCEPT !.low = c] ELSE [r EXCEPT !.high = c]

\* nextRectBox(rect_box, centroid, quadrant): a copy of rect_box with one
\* bound of each interval overwritten; centroid is a RangeBox
nextRectBox(rect_box, centroid, quadrant) ==
    [range_box_x |->
        [left  |-> SetBound(rect_box.range_box_x.left,
                            BitSet(quadrant, 8), centroid.left.low),
         right |-> SetBound(rect_box.range_box_x.right,
                            BitSet(quadrant, 4), centroid.left.high)],
     range_box_y |->
        [left  |-> SetBound(rect_box.range_box_y.left,
                            BitSet(quadrant, 2), centroid.right.low),
         right |-> SetBound(rect_box.range_box_y.right,
                            BitSet(quadrant, 1), centroid.right.high)]]

\* utils/geo_decls.h: the comparisons with tolerance EPSILON = 1.0E-06.
\* Two coordinates of the model differ by 0 or by at least half a unit, and
\* an infinite bound differs from a finite one by more than any tolerance,
\* so the tolerance never changes an outcome.
FPlt(A, B) == A < B
FPle(A, B) == A <= B
FPgt(A, B) == A > B
FPge(A, B) == A >= B
FPeq(A, B) == A = B

\* overlap2D with FPgt for FPge
overlap2D_strict(range_box, query) ==
    /\ FPgt(range_box.right.high, query.low)
    /\ FPle(range_box.left.low, query.high)

\* Can any range from range_box overlap with this argument?
overlap2D(range_box, query) ==
    /\ FPge(range_box.right.high, query.low)
    /\ FPle(range_box.left.low, query.high)

overlap4D(rect_box, query) ==
    /\ overlap2D(rect_box.range_box_x, query.left)
    /\ overlap2D(rect_box.range_box_y, query.right)

\* Can any range from range_box contain this argument?
contain2D(range_box, query) ==
    /\ FPge(range_box.right.high, query.high)
    /\ FPle(range_box.left.low, query.low)

contain4D(rect_box, query) ==
    /\ contain2D(rect_box.range_box_x, query.left)
    /\ contain2D(rect_box.range_box_y, query.right)

\* Can any range from range_box be contained by this argument?
contained2D(range_box, query) ==
    /\ FPle(range_box.left.low, query.high)
    /\ FPge(range_box.left.high, query.low)
    /\ FPle(range_box.right.low, query.high)
    /\ FPge(range_box.right.high, query.low)

contained4D(rect_box, query) ==
    /\ contained2D(rect_box.range_box_x, query.left)
    /\ contained2D(rect_box.range_box_y, query.right)

\* Can any range from range_box be lower than this argument?
lower2D(range_box, query) ==
    /\ FPlt(range_box.left.low, query.low)
    /\ FPlt(range_box.right.low, query.low)

\* Can any range from range_box not extend to the right side of the query?
overLower2D(range_box, query) ==
    /\ FPle(range_box.left.low, query.high)
    /\ FPle(range_box.right.low, query.high)

\* Can any range from range_box be higher than this argument?
higher2D(range_box, query) ==
    /\ FPgt(range_box.left.high, query.high)
    /\ FPgt(range_box.right.high, query.high)

\* Can any range from range_box not extend to the left side of the query?
overHigher2D(range_box, query) ==
    /\ FPge(range_box.left.high, query.low)
    /\ FPge(range_box.right.high, query.low)

left4D(rect_box, query)      == lower2D(rect_box.range_box_x, query.left)
overLeft4D(rect_box, query)  == overLower2D(rect_box.range_box_x, query.left)
right4D(rect_box, query)     == higher2D(rect_box.range_box_x, query.left)
overRight4D(rect_box, query) == overHigher2D(rect_box.range_box_x, query.left)
below4D(rect_box, query)     == lower2D(rect_box.range_box_y, query.right)
overBelow4D(rect_box, query) == overLower2D(rect_box.range_box_y, query.right)
above4D(rect_box, query)     == higher2D(rect_box.range_box_y, query.right)
overAbove4D(rect_box, query) == overHigher2D(rect_box.range_box_y, query.right)

\* access/stratnum.h: the RT*StrategyNumber values the two consistent
\* functions implement, by name
Strategies ==
    {"RTOverlap", "RTContains", "RTSame", "RTContainedBy", "RTLeft",
     "RTOverLeft", "RTRight", "RTOverRight", "RTAbove", "RTOverAbove",
     "RTBelow", "RTOverBelow"}

\* the switch of spg_loose_quad_inner_consistent: the region test of a
\* strategy on (next_rect_box, queries[i])
RegionTest(strategy, rect_box, query) ==
    CASE strategy = "RTOverlap"     -> overlap4D(rect_box, query)
      [] strategy = "RTContains"    -> contain4D(rect_box, query)
      [] strategy = "RTSame"        -> contained4D(rect_box, query)
      [] strategy = "RTContainedBy" -> contained4D(rect_box, query)
      [] strategy = "RTLeft"        -> left4D(rect_box, query)
      [] strategy = "RTOverLeft"    -> overLeft4D(rect_box, query)
      [] strategy = "RTRight"       -> right4D(rect_box, query)
      [] strategy = "RTOverRight"   -> overRight4D(rect_box, query)
      [] strategy = "RTAbove"       -> above4D(rect_box, query)
      [] strategy = "RTOverAbove"   -> overAbove4D(rect_box, query)
      [] strategy = "RTBelow"       -> below4D(rect_box, query)
      [] strategy = "RTOverBelow"   -> overBelow4D(rect_box, query)

\* utils/adt/geo_ops.c: the box operators spg_loose_quad_leaf_consistent
\* calls (box_overlap, box_contain, box_contained, box_same, box_left,
\* box_overleft, box_right, box_overright, box_above, box_overabove,
\* box_below, box_overbelow), the exact test of a strategy on (leaf, query)
ExactTest(strategy, leaf, query) ==
    CASE strategy = "RTOverlap" ->
            /\ FPle(leaf.low.x, query.high.x) /\ FPle(query.low.x, leaf.high.x)
            /\ FPle(leaf.low.y, query.high.y) /\ FPle(query.low.y, leaf.high.y)
      [] strategy = "RTContains" ->
            /\ FPge(leaf.high.x, query.high.x) /\ FPle(leaf.low.x, query.low.x)
            /\ FPge(leaf.high.y, query.high.y) /\ FPle(leaf.low.y, query.low.y)
      [] strategy = "RTContainedBy" ->
            /\ FPle(leaf.high.x, query.high.x) /\ FPge(leaf.low.x, query.low.x)
            /\ FPle(leaf.high.y, query.high.y) /\ FPge(leaf.low.y, query.low.y)
      [] strategy = "RTSame" ->
            /\ FPeq(leaf.high.x, query.high.x) /\ FPeq(leaf.low.x, query.low.x)
            /\ FPeq(leaf.high.y, query.high.y) /\ FPeq(leaf.low.y, query.low.y)
      [] strategy = "RTLeft"      -> FPlt(leaf.high.x, query.low.x)
      [] strategy = "RTOverLeft"  -> FPle(leaf.high.x, query.high.x)
      [] strategy = "RTRight"     -> FPgt(leaf.low.x, query.high.x)
      [] strategy = "RTOverRight" -> FPge(leaf.low.x, query.low.x)
      [] strategy = "RTBelow"     -> FPlt(leaf.high.y, query.low.y)
      [] strategy = "RTOverBelow" -> FPle(leaf.high.y, query.high.y)
      [] strategy = "RTAbove"     -> FPgt(leaf.low.y, query.high.y)
      [] strategy = "RTOverAbove" -> FPge(leaf.low.y, query.low.y)

-----------------------------------------------------------------------------
(* One call of getQuadrant on any two boxes                                *)

QuadInit ==
    /\ refBox \in BoxesUpTo(MaxQuadCoord)
    /\ candBox \in BoxesUpTo(MaxQuadCoord)
    /\ quadOut = 0
    /\ quadPc = "call"

\* quadrant = getQuadrant(centroid, inBox)
GetQuadrant ==
    /\ quadPc = "call"
    /\ quadOut' = getQuadrant(refBox, candBox)
    /\ quadPc' = "return"
    /\ UNCHANGED <<refBox, candBox>>
    /\ UNCHANGED <<callVars, splitVars, travVars, nodeVars, chooseVars, treeVars>>

QuadNext == GetQuadrant

QuadSpecInit ==
    /\ QuadInit /\ SplitIdle /\ TravIdle /\ NodeIdle /\ ChooseIdle /\ TreeIdle
    /\ CallIdle

SpecQuadrant == QuadSpecInit /\ [][QuadNext]_vars

-----------------------------------------------------------------------------
(* A descent from the root: the traversal value is initRectBox at the root *)
(* and nextRectBox(parent's, prefix, quadrant) below; at any node a region *)
(* test is applied to the traversal value and a query.                     *)

TravInit ==
    /\ traversalValue = initRectBox
    /\ travDepth = 0
    /\ regStrategy = "none"
    /\ regFlag = FALSE
    /\ regExact = FALSE

\* next_rect_box = nextRectBox(rect_box, centroid, quadrant), handed on as
\* the traversal value of the child; quadrant is a uint8 of which nextRectBox
\* reads the low four bits
Descend ==
    /\ travDepth < MaxTravDepth
    /\ \E prefix \in BoxesUpTo(MaxTravCoord), q \in 0..15 :
          traversalValue' = nextRectBox(traversalValue, getRangeBox(prefix), q)
    /\ travDepth' = travDepth + 1
    /\ regStrategy' = "none"
    /\ regFlag' = FALSE
    /\ regExact' = FALSE
    /\ UNCHANGED <<callVars, splitVars, quadVars, nodeVars, chooseVars, treeVars>>

\* the box b, as the 4-D point (low.x, high.x, low.y, high.y), lies in the
\* four intervals of rect_box
BoxInRectBox(b, rect_box) ==
    /\ rect_box.range_box_x.left.low <= b.low.x
    /\ b.low.x <= rect_box.range_box_x.left.high
    /\ rect_box.range_box_x.right.low <= b.high.x
    /\ b.high.x <= rect_box.range_box_x.right.high
    /\ rect_box.range_box_y.left.low <= b.low.y
    /\ b.low.y <= rect_box.range_box_y.left.high
    /\ rect_box.range_box_y.right.low <= b.high.y
    /\ b.high.y <= rect_box.range_box_y.right.high

\* the scan key at this node: inner_consistent's region test on the
\* traversal value, and leaf_consistent's test on a box lying in it
TestRegion ==
    /\ regStrategy = "none"
    /\ \E strategy \in Strategies, query \in BoxesUpTo(MaxTravCoord),
          b \in BoxesUpTo(MaxTravCoord) :
          /\ BoxInRectBox(b, traversalValue)
          /\ regStrategy' = strategy
          /\ regFlag' = RegionTest(strategy, traversalValue, getRangeBox(query))
          /\ regExact' = ExactTest(strategy, b, query)
    /\ UNCHANGED <<traversalValue, travDepth>>
    /\ UNCHANGED <<callVars, splitVars, quadVars, nodeVars, chooseVars, treeVars>>

TravNext ==
    \/ Descend
    \/ TestRegion

TravSpecInit ==
    /\ TravInit /\ SplitIdle /\ QuadIdle /\ NodeIdle /\ ChooseIdle /\ TreeIdle
    /\ CallIdle

SpecTraverse == TravSpecInit /\ [][TravNext]_vars

\* C3: whenever the exact predicate of a strategy holds for a query and a
\* box whose four coordinates lie in the four intervals of a RectBox, the
\* strategy's region test on that RectBox and query returns true.
C3_RegionTestCoversExactTest ==
    (regStrategy # "none" /\ regExact) => regFlag

\* C3's case: two levels down, with a finite bound set, a box in the RectBox
\* is strictly left of the query and left4D says so
C3_Witness ==
    /\ travDepth = 2
    /\ traversalValue.range_box_x.left.high # PosInf
    /\ traversalValue.range_box_x.right.low # NegInf
    /\ regStrategy = "RTLeft"
    /\ regExact
    /\ regFlag

\* interval r lies in interval s
RangeInside(r, s) == s.low <= r.low /\ r.high <= s.high

\* C4: each of the four intervals of a child's RectBox lies in the
\* corresponding interval of its parent's, whatever the prefix and quadrant.
C4_ChildRectBoxInsideParent ==
    [][/\ RangeInside(traversalValue'.range_box_x.left,
                      traversalValue.range_box_x.left)
       /\ RangeInside(traversalValue'.range_box_x.right,
                      traversalValue.range_box_x.right)
       /\ RangeInside(traversalValue'.range_box_y.left,
                      traversalValue.range_box_y.left)
       /\ RangeInside(traversalValue'.range_box_y.right,
                      traversalValue.range_box_y.right)]_vars

-----------------------------------------------------------------------------
(* spg_loose_quad_choose                                                   *)

\* limits.h: the range of int
INT_MAX == 2147483647
INT_MIN == -INT_MAX - 1

\* "int w = high - low;": the double difference converted to int, in whole
\* units (low and high are in half units)
IntSide(low, high) == Trunc(high - low, 2)

\* floor(log2(a / b)) for integers a > 0, b > 0: the k with 2^k <= a/b < 2^(k+1)
RECURSIVE FloorLog2(_, _)
FloorLog2(a, b) ==
    IF a < b THEN FloorLog2(2 * a, b) - 1
    ELSE IF a >= 2 * b THEN FloorLog2(a, 2 * b) + 1
    ELSE 0

\* The conversion of a double that is not finite to int is undefined; what
\* it gives is fixed by the build: x86-64's cvttsd2si gives INT_MIN for every
\* such value, a saturating conversion (AArch64's fcvtzs) gives INT_MAX for
\* +infinity, INT_MIN for -infinity and 0 for NaN.
Conversions == {"cvttsd2si", "saturating"}

\* "int levelCandidate = floor(log2(currBoxLength / newElementRadius)) - 1;"
\* with newElementRadius = boxSide / 2.0.  With boxSide = 0 the quotient is
\* +infinity (NaN when currBoxLength = 0 too); with currBoxLength = 0 its
\* logarithm is -infinity.
LevelCandidate(currBoxLength, boxSide, conversion) ==
    IF currBoxLength > 0 /\ boxSide > 0
        THEN FloorLog2(2 * currBoxLength, boxSide) - 1
    ELSE IF currBoxLength > 0 /\ boxSide = 0
        THEN (IF conversion = "cvttsd2si" THEN INT_MIN ELSE INT_MAX)
    ELSE IF currBoxLength = 0 /\ boxSide > 0
        THEN INT_MIN
    ELSE (IF conversion = "cvttsd2si" THEN INT_MIN ELSE 0)

\* "int middleX = low + (high - low) / 2.0;" stored back into a double
\* coordinate: the midpoint truncated to a whole unit, in half units
IntMiddle(low, high) == 2 * Trunc(low + high, 4)

\* the body of choose's if-chain on currentQuadrant
HalveBox(currentBox, currentQuadrant) ==
    LET middleX == IntMiddle(currentBox.low.x, currentBox.high.x)
        middleY == IntMiddle(currentBox.low.y, currentBox.high.y)
    IN  CASE currentQuadrant = 0 ->
                [currentBox EXCEPT !.low.y = middleY, !.high.x = middleX]
          [] currentQuadrant = 1 ->
                [currentBox EXCEPT !.low.x = middleX, !.low.y = middleY]
          [] currentQuadrant = 2 ->
                [currentBox EXCEPT !.high.x = middleX, !.high.y = middleY]
          [] currentQuadrant = 3 ->
                [currentBox EXCEPT !.low.x = middleX, !.high.y = middleY]

\* "for (int i = 0; i < levelDifference; i++)": the value of currentQuadrant
\* after the loop.  Once an iteration leaves currentBox as it was, every
\* later iteration repeats it, so the loop's result is already known.
RECURSIVE ChooseLoop(_, _, _, _, _)
ChooseLoop(currentBox, box, i, levelDifference, currentQuadrant) ==
    IF ~(i < levelDifference) THEN currentQuadrant
    ELSE LET q    == getQuadrant(currentBox, box)
             next == HalveBox(currentBox, q)
         IN  IF next = currentBox THEN q
             ELSE ChooseLoop(next, box, i + 1, levelDifference, q)

\* spg_loose_quad_choose on a node that is not allTheSame: the local
\* boxNewLevel, out's levelAdd and out's nodeN
spg_loose_quad_choose(prefix, box, lvl, conversion) ==
    LET centroidWidth  == IntSide(prefix.low.x, prefix.high.x)
        centroidHeight == IntSide(prefix.low.y, prefix.high.y)
        currBoxLength  == IF centroidWidth >= centroidHeight
                          THEN centroidWidth ELSE centroidHeight
        boxWidth       == IntSide(box.low.x, box.high.x)
        boxHeight      == IntSide(box.low.y, box.high.y)
        boxSide        == IF boxWidth >= boxHeight THEN boxWidth ELSE boxHeight
        levelCandidate == LevelCandidate(currBoxLength, boxSide, conversion)
        newLevel       == IF levelCandidate >= 0 THEN levelCandidate ELSE 0
        candidateLevelDiff == newLevel - lvl
        levelDifference    == IF candidateLevelDiff >= 0
                              THEN candidateLevelDiff ELSE 0
    IN  [boxNewLevel |-> newLevel,
         levelAdd    |-> levelDifference,
         nodeN       |-> ChooseLoop(prefix, box, 0, levelDifference, 0)]

\* the prefixes picksplit writes: squares [m, M] x [m, M]
PrefixSquares(m) == {Box(lo, lo, hi, hi) : lo \in 0..m, hi \in 0..m} \cap BoxesUpTo(m)

\* the boxes with corners up to m and sides up to side
SmallBoxes(m, side) ==
    {b \in BoxesUpTo(m) :
        b.high.x - b.low.x <= side /\ b.high.y - b.low.y <= side}

\* the box with the same low corner and twice the width and height
DoubleBox(box) ==
    Box(box.low.x, box.low.y,
        box.low.x + 2 * (box.high.x - box.low.x),
        box.low.y + 2 * (box.high.y - box.low.y))

\* the core calls choose at an inner node for a new box; it has zeroed out
ChooseInit ==
    /\ prefixDatum \in PrefixSquares(MaxChooseCoord)
    /\ leafDatum \in SmallBoxes(MaxChooseCoord, MaxBoxSide)
    /\ level \in 0..MaxLevel
    /\ allTheSame \in BOOLEAN
    /\ floatToInt \in Conversions
    /\ levelAdd = 0
    /\ nodeN = 0
    /\ boxNewLevel = 0
    /\ firstNewLevel = 0
    /\ choosePc = "call"

\* spg_loose_quad_choose(in, out); on an allTheSame node it leaves levelAdd
\* and nodeN alone
Choose ==
    /\ choosePc = "call"
    /\ IF allTheSame
       THEN UNCHANGED <<levelAdd, nodeN, boxNewLevel>>
       ELSE LET out == spg_loose_quad_choose(prefixDatum, leafDatum, level,
                                             floatToInt)
            IN  /\ levelAdd' = out.levelAdd
                /\ nodeN' = out.nodeN
                /\ boxNewLevel' = out.boxNewLevel
    /\ choosePc' = "chosen"
    /\ UNCHANGED <<prefixDatum, allTheSame, level, leafDatum, floatToInt,
                   firstNewLevel>>
    /\ UNCHANGED <<callVars, splitVars, quadVars, travVars, treeVars>>

\* a second call at the same node and level, for the box doubled in width
\* and height
ChooseDoubled ==
    /\ choosePc = "chosen"
    /\ ~allTheSame
    /\ leafDatum' = DoubleBox(leafDatum)
    /\ firstNewLevel' = boxNewLevel
    /\ LET out == spg_loose_quad_choose(prefixDatum, DoubleBox(leafDatum),
                                        level, floatToInt)
       IN  /\ levelAdd' = out.levelAdd
           /\ nodeN' = out.nodeN
           /\ boxNewLevel' = out.boxNewLevel
    /\ choosePc' = "doubled"
    /\ UNCHANGED <<prefixDatum, allTheSame, level, floatToInt>>
    /\ UNCHANGED <<callVars, splitVars, quadVars, travVars, treeVars>>

ChooseNext ==
    \/ Choose
    \/ ChooseDoubled

ChooseSpecInit ==
    /\ ChooseInit /\ SplitIdle /\ QuadIdle /\ TravIdle /\ TreeIdle
    /\ CallIdle

SpecChoose == ChooseSpecInit /\ [][ChooseNext]_vars

\* choose has returned from a node that is not allTheSame
ChoseNode == choosePc \in {"chosen", "doubled"} /\ ~allTheSame

\* the larger side of a box, in half units
LargerSide(box) == Max(box.high.x - box.low.x, box.high.y - box.low.y)

\* the larger side of a box as choose's int variables hold it, in units
LargerIntSide(box) ==
    Max(IntSide(box.low.x, box.high.x), IntSide(box.low.y, box.high.y))

\* choose's quotient is finite: neither int side is zero
FiniteQuotient ==
    LargerIntSide(prefixDatum) > 0 /\ LargerIntSide(leafDatum) > 0

\* C6: when choose has computed levelAdd = 0 on a node that is not
\* allTheSame, the node number it returned is getQuadrant(prefix, new box).
\* (Stated where the quotient of the level equation is finite.)
C6_NodeIsParentQuadrantAtLevelAddZero ==
    (ChoseNode /\ FiniteQuotient /\ levelAdd = 0) =>
        nodeN = getQuadrant(prefixDatum, leafDatum)

\* the sub-box of quadrant q of extent, halved exactly, with every
\* coordinate doubled so that the midpoints stay integers
ExactHalf(extent, q) ==
    LET midX == extent.low.x + extent.high.x
        midY == extent.low.y + extent.high.y
    IN  CASE q = 0 -> Box(2 * extent.low.x, midY, midX, 2 * extent.high.y)
          [] q = 1 -> Box(midX, midY, 2 * extent.high.x, 2 * extent.high.y)
          [] q = 2 -> Box(2 * extent.low.x, 2 * extent.low.y, midX, midY)
          [] q = 3 -> Box(midX, 2 * extent.low.y, 2 * extent.high.x, midY)

\* the quadrant of box relative to extent after k exact halvings, each into
\* the quadrant the box has at that step (extent and box scaled alike)
RECURSIVE QuadrantAfterHalvings(_, _, _)
QuadrantAfterHalvings(extent, box, k) ==
    IF k = 0 THEN getQuadrant(extent, box)
    ELSE QuadrantAfterHalvings(
            ExactHalf(extent, getQuadrant(extent, box)),
            Box(2 * box.low.x, 2 * box.low.y, 2 * box.high.x, 2 * box.high.y),
            k - 1)

\* C7: when choose has computed levelAdd = L > 0, the node number it
\* returned is the quadrant of the new box relative to the prefix box after
\* L - 1 halvings, each into the sub-box of the quadrant chosen at that step.
\* (Stated where the quotient of the level equation is finite.)
C7_NodeIsQuadrantAfterHalvings ==
    (ChoseNode /\ FiniteQuotient /\ levelAdd > 0) =>
        nodeN = QuadrantAfterHalvings(prefixDatum, leafDatum, levelAdd - 1)

\* C8: choose's levelAdd is max(0, candidate - level) >= 0 with candidate =
\* max(0, floor(log2(s / r)) - 1), s the larger side of the prefix box and r
\* half the larger side of the new box (s / r is 2 * side / side in the same
\* unit).  (Stated where the quotient of the level equation is finite.)
C8_LevelAddFromSides ==
    (ChoseNode /\ FiniteQuotient) =>
        /\ levelAdd >= 0
        /\ levelAdd =
              Max(0, Max(0, FloorLog2(2 * LargerSide(prefixDatum),
                                      LargerSide(leafDatum)) - 1) - level)

\* C9: with the prefix box the same, the candidate level choose computes
\* for the box doubled in width and height is not above the one it computed
\* for the box itself.
C9_DoublingNeverRaisesCandidate ==
    choosePc = "doubled" => boxNewLevel <= firstNewLevel

-----------------------------------------------------------------------------
(* spg_loose_quad_picksplit and spg_loose_quad_inner_consistent            *)

\* qsort(a, n, sizeof(double), compareDoubles): a in ascending order
RECURSIVE QSort(_)
QSort(a) ==
    IF Len(a) = 0 THEN <<>>
    ELSE LET k == CHOOSE k \in 1..Len(a) : \A j \in 1..Len(a) : a[k] <= a[j]
         IN  <<a[k]>> \o QSort([j \in 1..(Len(a) - 1) |->
                                   IF j < k THEN a[j] ELSE a[j + 1]])

\* the elements of the sorted arrays that the computation of minXY and maxXY
\* reads, as (array, C index): lowXs[0] and lowYs[0] for minXY; for maxXY
\* highXs[nTuples] and highYs[nTuples] in the test and, according to the
\* test's outcome, highXs[nTuples - 1] or highYs[nTuples - 1]
PickSplitReads(nTuples, pastEnd) ==
    {<<"lowXs", 0>>, <<"lowYs", 0>>,
     <<"highXs", nTuples>>, <<"highYs", nTuples>>,
     IF pastEnd THEN <<"highXs", nTuples - 1>> ELSE <<"highYs", nTuples - 1>>}

\* spg_loose_quad_picksplit(in, out), in->datums = boxes.  The test of maxXY
\* compares highXs[nTuples] with highYs[nTuples], one element past the end
\* of both arrays: pastEnd is what that comparison of two values that are
\* not part of the arrays happens to give.
spg_loose_quad_picksplit(boxes, pastEnd) ==
    LET nTuples == Len(boxes)
        lowXs   == QSort([i \in 1..nTuples |-> boxes[i].low.x])
        highXs  == QSort([i \in 1..nTuples |-> boxes[i].high.x])
        lowYs   == QSort([i \in 1..nTuples |-> boxes[i].low.y])
        highYs  == QSort([i \in 1..nTuples |-> boxes[i].high.y])
        minXY   == IF lowXs[1] <= lowYs[1] THEN lowXs[1] ELSE lowYs[1]
        maxXY   == IF pastEnd THEN highXs[nTuples] ELSE highYs[nTuples]
        prefix  == Box(minXY, minXY, maxXY, maxXY)
    IN  [reads            |-> PickSplitReads(nTuples, pastEnd),
         hasPrefix        |-> TRUE,
         prefixDatum      |-> prefix,
         nNodes           |-> 4,
         mapTuplesToNodes |-> [i \in 1..nTuples |-> getQuadrant(prefix, boxes[i])],
         leafTupleDatums  |-> boxes]

\* in->traversalValue is a sequence here: empty for NULL (the root)
NullTraversalValue == <<>>

\* a scan key sk: sk_strategy and the bounding box of sk_argument
\* (spg_box_quad_get_scankey_bbox)
ScanKeys(boxes) == [sk_strategy : Strategies, bbox : boxes]

\* a strategy number of the switches' default branch
Unrecognized == "Unrecognized"

\* the scan keys whose strategy the core may hand over: an operator class
\* can be declared with operators of any strategy number
AnyScanKeys(boxes) ==
    [sk_strategy : Strategies \cup {Unrecognized}, bbox : boxes]

\* the inner loop of inner_consistent for one quadrant, from key i on: the
\* switch on the strategy, whose default branch is elog(ERROR), and the
\* break at the first key that fails; "flag" / "noflag" / "error"
RECURSIVE QuadrantKeyLoop(_, _, _)
QuadrantKeyLoop(next_rect_box, keys, i) ==
    IF i > Len(keys) THEN "flag"
    ELSE IF keys[i].sk_strategy \notin Strategies THEN "error"
    ELSE IF ~RegionTest(keys[i].sk_strategy, next_rect_box,
                        getRangeBox(keys[i].bbox)) THEN "noflag"
    ELSE QuadrantKeyLoop(next_rect_box, keys, i + 1)

\* flag after the keys
KeysAdmit(next_rect_box, keys) ==
    QuadrantKeyLoop(next_rect_box, keys, 1) = "flag"

\* whether spg_loose_quad_inner_consistent ends in elog(ERROR): the
\* allTheSame branch returns before it reads a key; otherwise some quadrant's
\* loop reaches an unrecognized strategy
InnerConsistentErrors(ats, nNodes, tv, prefix, keys) ==
    /\ ~ats
    /\ LET rect_box == IF tv = NullTraversalValue THEN initRectBox ELSE tv[1]
       IN  \E q \in 0..(nNodes - 1) :
              QuadrantKeyLoop(nextRectBox(rect_box, getRangeBox(prefix), q),
                              keys, 1) = "error"

\* the loop of spg_loose_quad_leaf_consistent from key i on: the switch on
\* the strategy, whose default branch is elog(ERROR), and the break at the
\* first key that fails; the function's result "true" / "false", or "error"
RECURSIVE spg_loose_quad_leaf_consistent(_, _, _)
spg_loose_quad_leaf_consistent(leaf, keys, i) ==
    IF i > Len(keys) THEN "true"
    ELSE IF keys[i].sk_strategy \notin Strategies THEN "error"
    ELSE IF ~ExactTest(keys[i].sk_strategy, leaf, keys[i].bbox) THEN "false"
    ELSE spg_loose_quad_leaf_consistent(leaf, keys, i + 1)

\* spg_loose_quad_inner_consistent(in, out): out->nodeNumbers and
\* out->traversalValues (which the allTheSame branch does not allocate)
spg_loose_quad_inner_consistent(ats, nNodes, tv, prefix, keys) ==
    IF ats
    THEN [nodeNumbers     |-> [k \in 1..nNodes |-> k - 1],
          traversalValues |-> <<>>]
    ELSE LET rect_box == IF tv = NullTraversalValue THEN initRectBox ELSE tv[1]
             centroid == getRangeBox(prefix)
             chosen   == SortedSeq({q \in 0..(nNodes - 1) :
                            KeysAdmit(nextRectBox(rect_box, centroid, q), keys)})
         IN  [nodeNumbers     |-> chosen,
              traversalValues |-> [k \in 1..Len(chosen) |->
                                     nextRectBox(rect_box, centroid, chosen[k])]]

-----------------------------------------------------------------------------
(* One inner node at the root: picksplit builds it from the tuples of a    *)
(* full leaf page, choose routes later boxes to its children, and a scan   *)
(* asks inner_consistent which children to visit.                          *)

\* the boxes with corners at whole units 0 .. m
UnitBoxes(m) ==
    {b \in BoxesUpTo(2 * m) :
        /\ b.low.x % 2 = 0 /\ b.low.y % 2 = 0
        /\ b.high.x % 2 = 0 /\ b.high.y % 2 = 0}

\* a leaf page of 2..MaxTuples boxes is about to be split
TreeInit ==
    /\ datums \in UNION {[1..n -> UnitBoxes(MaxTreeCoord)] : n \in 2..MaxTuples}
    /\ prefixDatum = NoBox
    /\ allTheSame = FALSE
    /\ level = 0
    /\ leafDatum = NoBox
    /\ levelAdd = 0
    /\ nodeN = 0
    /\ floatToInt \in Conversions
    /\ nodes = <<>>
    /\ scankeys = <<>>
    /\ nodeNumbers = <<>>
    /\ traversalValues = <<>>
    /\ inserts = 0
    /\ scanResult = "none"
    /\ treePc = "leaf"

\* spg_loose_quad_picksplit(in, out); the core stores tuple i under node
\* out->mapTuplesToNodes[i] of a node with prefix out->prefixDatum.  When
\* picksplit has put every tuple under the same node, the core (spgdoinsert.c,
\* checkAllTheSame) runs the new node in allTheSame mode.
PickSplit ==
    /\ treePc = "leaf"
    /\ \E pastEnd \in BOOLEAN :
          LET out == spg_loose_quad_picksplit(datums, pastEnd)
          IN  /\ prefixDatum' = out.prefixDatum
              /\ nodes' = [n \in 0..(out.nNodes - 1) |->
                             {out.leafTupleDatums[i] :
                                 i \in {k \in 1..Len(datums) :
                                           out.mapTuplesToNodes[k] = n}}]
              /\ allTheSame' = \A i \in 1..Len(datums) :
                                  out.mapTuplesToNodes[i] = out.mapTuplesToNodes[1]
              /\ arrayReads' = out.reads
    /\ treePc' = "inner"
    /\ UNCHANGED <<level, leafDatum, levelAdd, nodeN, floatToInt>>
    /\ UNCHANGED <<datums, scankeys, nodeNumbers, traversalValues, inserts,
                   scanResult>>
    /\ UNCHANGED <<heap, parentAddr, childAddrs, callDepth, recheck>>
    /\ UNCHANGED <<splitVars, quadVars, travVars, chooseVars>>

\* spg_loose_quad_choose(in, out) at the root for a new box; the core stores
\* the box under node out->result.matchNode.nodeN, which on an allTheSame
\* node choose leaves for the core to set
Insert ==
    /\ treePc = "inner"
    /\ inserts < MaxInserts
    /\ \E box \in UnitBoxes(MaxTreeCoord), n \in DOMAIN nodes :
          LET out == spg_loose_quad_choose(prefixDatum, box, level, floatToInt)
          IN  /\ allTheSame \/ n = out.nodeN
              /\ leafDatum' = box
              /\ levelAdd' = IF allTheSame THEN levelAdd ELSE out.levelAdd
              /\ nodeN' = n
              /\ nodes' = [nodes EXCEPT ![n] = @ \cup {box}]
    /\ inserts' = inserts + 1
    /\ UNCHANGED <<prefixDatum, allTheSame, level, floatToInt>>
    /\ UNCHANGED <<datums, scankeys, nodeNumbers, traversalValues, scanResult,
                   treePc>>
    /\ UNCHANGED <<callVars, splitVars, quadVars, travVars, chooseVars>>

\* spg_loose_quad_inner_consistent(in, out) at the root (traversalValue
\* NULL) for a scan with up to MaxKeys keys
InnerConsistent ==
    /\ treePc = "inner"
    /\ \E keys \in UNION {[1..n -> ScanKeys(UnitBoxes(MaxTreeCoord))] :
                            n \in 0..MaxKeys} :
          LET out == spg_loose_quad_inner_consistent(
                        allTheSame, 4, NullTraversalValue, prefixDatum, keys)
          IN  /\ scankeys' = keys
              /\ nodeNumbers' = out.nodeNumbers
              /\ traversalValues' = out.traversalValues
    /\ scanResult' = "void"
    /\ treePc' = "scanned"
    /\ UNCHANGED <<datums, nodes, inserts>>
    /\ UNCHANGED <<callVars, nodeVars, splitVars, quadVars, travVars, chooseVars>>

TreeNext ==
    \/ PickSplit
    \/ Insert
    \/ InnerConsistent

TreeSpecInit ==
    /\ TreeInit /\ SplitIdle /\ QuadIdle /\ TravIdle /\ ChooseIdle
    /\ CallIdle

SpecTree == TreeSpecInit /\ [][TreeNext]_vars

-----------------------------------------------------------------------------
(* The two consistent functions called on their own, with keys of any      *)
(* strategy                                                                *)

\* a scan is about to call a consistent function
ScanInit ==
    /\ datums = <<>>
    /\ nodes = <<>>
    /\ scankeys = <<>>
    /\ nodeNumbers = <<>>
    /\ traversalValues = <<>>
    /\ inserts = 0
    /\ scanResult = "none"
    /\ treePc = "scan"

\* the key arrays of 1..MaxScanKeys keys
ScanKeyArrays ==
    UNION {[1..n -> AnyScanKeys(UnitBoxes(MaxTreeCoord))] : n \in 1..MaxScanKeys}

\* spg_loose_quad_inner_consistent(in, out) on a node of four children, at
\* the root (traversalValue NULL)
InnerConsistentCall ==
    /\ treePc = "scan"
    /\ \E prefix \in UnitBoxes(MaxTreeCoord), ats \in BOOLEAN,
          keys \in ScanKeyArrays :
          /\ prefixDatum' = prefix
          /\ allTheSame' = ats
          /\ scankeys' = keys
          /\ IF InnerConsistentErrors(ats, 4, NullTraversalValue, prefix, keys)
             THEN /\ scanResult' = "error"
                  /\ UNCHANGED <<nodeNumbers, traversalValues>>
             ELSE LET out == spg_loose_quad_inner_consistent(
                                ats, 4, NullTraversalValue, prefix, keys)
                  IN  /\ scanResult' = "void"
                      /\ nodeNumbers' = out.nodeNumbers
                      /\ traversalValues' = out.traversalValues
    /\ treePc' = "inner_consistent"
    /\ UNCHANGED <<level, leafDatum, levelAdd, nodeN, floatToInt>>
    /\ UNCHANGED <<datums, nodes, inserts>>
    /\ UNCHANGED <<callVars, splitVars, quadVars, travVars, chooseVars>>

\* spg_loose_quad_leaf_consistent(in, out) on a leaf box
LeafConsistentCall ==
    /\ treePc = "scan"
    /\ \E leaf \in UnitBoxes(MaxTreeCoord), keys \in ScanKeyArrays :
          /\ leafDatum' = leaf
          /\ scankeys' = keys
          /\ scanResult' = spg_loose_quad_leaf_consistent(leaf, keys, 1)
    /\ treePc' = "leaf_consistent"
    /\ UNCHANGED <<prefixDatum, allTheSame, level, levelAdd, nodeN, floatToInt>>
    /\ UNCHANGED <<datums, nodes, nodeNumbers, traversalValues, inserts>>
    /\ UNCHANGED <<callVars, splitVars, quadVars, travVars, chooseVars>>

ScanNext ==
    \/ InnerConsistentCall
    \/ LeafConsistentCall

ScanSpecInit ==
    /\ ScanInit /\ NodeIdle /\ SplitIdle /\ QuadIdle /\ TravIdle /\ ChooseIdle
    /\ CallIdle

SpecScan == ScanSpecInit /\ [][ScanNext]_vars

\* C15: a consistent call whose key array holds a key of an unrecognized
\* strategy, at whatever position and on whatever node, ends in the error
\* and returns no result.
C15_UnrecognizedStrategyIsFatal ==
    (/\ treePc \in {"inner_consistent", "leaf_consistent"}
     /\ \E i \in 1..Len(scankeys) : scankeys[i].sk_strategy \notin Strategies)
        => scanResult = "error"

\* spg_loose_quad_leaf_consistent's answer for a leaf box: every key's
\* exact test holds
LeafMatches(leaf, keys) ==
    \A i \in 1..Len(keys) : ExactTest(keys[i].sk_strategy, leaf, keys[i].bbox)

\* C2: after inner_consistent has answered for a node built by picksplit
\* and filled through choose, no box stored under a child it left out
\* satisfies the exact leaf-level test of the scan's keys.
C2_PrunedChildHoldsNoMatch ==
    treePc = "scanned" =>
        \A n \in DOMAIN nodes :
            n \notin SeqRange(nodeNumbers) =>
                \A leaf \in nodes[n] : ~LeafMatches(leaf, scankeys)

-----------------------------------------------------------------------------
(* The consistent functions with their objects: the RectBox objects that   *)
(* inner_consistent receives, allocates and frees, the subtype of each     *)
(* scan key, and out->recheck.  A scan calls inner_consistent at the root  *)
(* and then on a child with a traversal value the root call returned.      *)

MaxCallDepth == 2

\* sk_subtype: the two type oids spg_box_quad_get_scankey_bbox knows
Subtypes == {"BOXOID", "POLYGONOID"}

\* scan keys with strategy and subtype of any kind; bbox is the box of a
\* box-typed key and the boundbox of a polygon-typed one
TypedScanKeys(boxes) ==
    [sk_strategy : Strategies \cup {Unrecognized},
     sk_subtype  : Subtypes \cup {Unrecognized},
     bbox        : boxes]

\* the squares with corners at whole units 0 .. MaxTreeCoord
UnitSquares == PrefixSquares(2 * MaxTreeCoord) \cap UnitBoxes(MaxTreeCoord)

\* the key arrays of 0..MaxScanKeys typed keys about a square
TypedKeyArrays ==
    UNION {[1..n -> TypedScanKeys(UnitSquares)] : n \in 0..MaxScanKeys}

\* is_bounding_box_test_exact with RTOverlap among the exact strategies
is_bounding_box_test_exact_overlap(strategy) ==
    strategy \in {"RTLeft", "RTOverLeft", "RTOverRight", "RTRight",
                  "RTOverBelow", "RTBelow", "RTAbove", "RTOverAbove",
                  "RTOverlap"}

\* is_bounding_box_test_exact(strategy)
is_bounding_box_test_exact(strategy) ==
    strategy \in {"RTLeft", "RTOverLeft", "RTOverRight", "RTRight",
                  "RTOverBelow", "RTBelow", "RTAbove", "RTOverAbove"}

\* spg_box_quad_get_scankey_bbox(sk, recheck): hasRecheck is "recheck is not
\* NULL", rck the value of *recheck before the call; the box returned, the
\* value of *recheck after the call, and whether the call ends in elog(ERROR)
spg_box_quad_get_scankey_bbox(sk, hasRecheck, rck) ==
    CASE sk.sk_subtype = "BOXOID" ->
            [box |-> sk.bbox, recheck |-> rck, error |-> FALSE]
      [] sk.sk_subtype = "POLYGONOID" ->
            [box     |-> sk.bbox,
             recheck |-> IF hasRecheck
                            /\ ~is_bounding_box_test_exact(sk.sk_strategy)
                         THEN TRUE ELSE rck,
             error   |-> FALSE]
      [] OTHER ->
            [box |-> sk.bbox, recheck |-> rck, error |-> TRUE]

\* palloc: the chunk handed out is the lowest free address, so that a chunk
\* that was freed is handed out again
palloc(h) ==
    CHOOSE a \in 1..(Cardinality(DOMAIN h) + 1) :
        /\ a \notin DOMAIN h
        /\ \A b \in 1..(a - 1) : b \in DOMAIN h

\* a write that lands on every object of the heap
Store_everywhere(h, a, v) == [b \in DOMAIN h \cup {a} |-> v]

\* the heap with value v written to the object at address a
Store(h, a, v) == [b \in DOMAIN h \cup {a} |-> IF b = a THEN v ELSE h[b]]

\* pfree(a)
pfree(h, a) == [b \in DOMAIN h \ {a} |-> h[b]]

\* the else branch of "if (flag)" in the quadrant loop
Rejected(flag) == ~flag

\* "if (flag)" taken whenever the key loop ended without an error
Selected_always(res) == res # "error"

\* "if (flag)" after the key loop, whose outcome is res
Selected(res) == res = "flag"

\* the quadrant loop of spg_loose_quad_inner_consistent from quadrant on:
\* st holds the heap, out->nodeNumbers and out->traversalValues (addresses)
\* and whether elog(ERROR) was reached; rect_box is an address
RECURSIVE QuadrantLoop(_, _, _, _, _, _)
QuadrantLoop(st, rect_box, centroid, keys, nNodes, quadrant) ==
    IF quadrant >= nNodes \/ st.error THEN st
    ELSE LET next_rect_box == palloc(st.heap)
             h1   == Store(st.heap, next_rect_box,
                           nextRectBox(st.heap[rect_box], centroid, quadrant))
             res  == QuadrantKeyLoop(h1[next_rect_box], keys, 1)
             flag == Selected(res)
         IN  QuadrantLoop(
                 [heap  |-> IF Rejected(flag) /\ res # "error"
                            THEN pfree(h1, next_rect_box) ELSE h1,
                  nodeNumbers |->
                      IF flag THEN Append(st.nodeNumbers, quadrant)
                      ELSE st.nodeNumbers,
                  traversalValues |->
                      IF flag THEN Append(st.traversalValues, next_rect_box)
                      ELSE st.traversalValues,
                  error |-> res = "error"],
                 rect_box, centroid, keys, nNodes, quadrant + 1)

\* spg_loose_quad_inner_consistent(in, out) on the heap h with
\* in->traversalValue = tv (an address or NULL): the heap after the call,
\* out->nodeNumbers, out->traversalValues and whether the call ended in
\* elog(ERROR)
InnerConsistentOnHeap(h, ats, nNodes, tv, prefix, keys) ==
    IF ats
    THEN [heap |-> h, nodeNumbers |-> [k \in 1..nNodes |-> k - 1],
          traversalValues |-> <<>>, error |-> FALSE]
    ELSE LET a0       == palloc(h)
             rect_box == IF tv # NULL THEN tv ELSE a0
             h0       == IF tv # NULL THEN h ELSE Store(h, a0, initRectBox)
             start    == [heap |-> h0, nodeNumbers |-> <<>>,
                          traversalValues |-> <<>>, error |-> FALSE]
         IN  IF \E i \in 1..Len(keys) :
                   spg_box_quad_get_scankey_bbox(keys[i], FALSE, FALSE).error
             THEN [start EXCEPT !.error = TRUE]
             ELSE QuadrantLoop(start, rect_box, getRangeBox(prefix), keys,
                               nNodes, 0)

\* the loop of spg_loose_quad_leaf_consistent from key i on, with
\* out->recheck = rck so far: the result "true" / "false" / "error" and
\* out->recheck
RECURSIVE LeafKeyLoop(_, _, _, _)
LeafKeyLoop(leaf, keys, i, rck) ==
    IF i > Len(keys) THEN [result |-> "true", recheck |-> rck]
    ELSE LET got == spg_box_quad_get_scankey_bbox(keys[i], TRUE, rck)
         IN  IF got.error \/ keys[i].sk_strategy \notin Strategies
             THEN [result |-> "error", recheck |-> got.recheck]
             ELSE IF ~ExactTest(keys[i].sk_strategy, leaf, got.box)
             THEN [result |-> "false", recheck |-> got.recheck]
             ELSE LeafKeyLoop(leaf, keys, i + 1, got.recheck)

\* a scan with its keys is about to start
CallInit ==
    /\ heap = <<>>
    /\ parentAddr = NULL
    /\ childAddrs = <<>>
    /\ callDepth = 0
    /\ recheck = FALSE
    /\ arrayReads = {}

\* spg_loose_quad_inner_consistent(in, out) on a node of four children: at
\* the root with the scan's keys and traversalValue NULL, or on a child the
\* previous call reported, with the same keys and the traversal value
\* returned for that child; the prefix is a square, as picksplit writes it
InnerConsistentVisit ==
    /\ treePc \in {"scan", "inner_consistent"}
    /\ treePc = "inner_consistent" => scanResult = "void"
    /\ callDepth < MaxCallDepth
    /\ \E prefix \in UnitSquares, ats \in BOOLEAN,
          keys \in (IF callDepth = 0 THEN TypedKeyArrays ELSE {scankeys}),
          tv \in (IF callDepth = 0 THEN {NULL} ELSE SeqRange(childAddrs)) :
          /\ \E out \in {InnerConsistentOnHeap(heap, ats, 4, tv, prefix, keys)} :
                 /\ heap' = out.heap
                 /\ scanResult' = IF out.error THEN "error" ELSE "void"
                 /\ nodeNumbers' = out.nodeNumbers
                 /\ childAddrs' = out.traversalValues
                 /\ traversalValues' =
                        [k \in 1..Len(out.traversalValues) |->
                            out.heap[out.traversalValues[k]]]
          /\ parentAddr' = tv
          /\ prefixDatum' = prefix
          /\ allTheSame' = ats
          /\ scankeys' = keys
    /\ callDepth' = callDepth + 1
    /\ treePc' = "inner_consistent"
    /\ UNCHANGED <<recheck, arrayReads>>
    /\ UNCHANGED <<level, leafDatum, levelAdd, nodeN, floatToInt>>
    /\ UNCHANGED <<datums, nodes, inserts>>
    /\ UNCHANGED <<splitVars, quadVars, travVars, chooseVars>>

\* spg_loose_quad_leaf_consistent(in, out) on a leaf box with the scan's keys
LeafConsistentVisit ==
    /\ treePc = "scan"
    /\ \E leaf \in UnitBoxes(MaxTreeCoord), keys \in TypedKeyArrays :
          \E out \in {LeafKeyLoop(leaf, keys, 1, FALSE)} :
              /\ leafDatum' = leaf
              /\ scankeys' = keys
              /\ scanResult' = out.result
              /\ recheck' = out.recheck
    /\ treePc' = "leaf_consistent"
    /\ UNCHANGED <<heap, parentAddr, childAddrs, callDepth, arrayReads>>
    /\ UNCHANGED <<prefixDatum, allTheSame, level, levelAdd, nodeN, floatToInt>>
    /\ UNCHANGED <<datums, nodes, nodeNumbers, traversalValues, inserts>>
    /\ UNCHANGED <<splitVars, quadVars, travVars, chooseVars>>

VisitNext ==
    \/ InnerConsistentVisit
    \/ LeafConsistentVisit

VisitSpecInit ==
    /\ ScanInit /\ CallInit
    /\ NodeIdle /\ SplitIdle /\ QuadIdle /\ TravIdle /\ ChooseIdle

SpecVisit == VisitSpecInit /\ [][VisitNext]_vars

\* the RectBox a call of inner_consistent received: the object at tv on the
\* heap h, or the unbounded one for NULL
ReceivedRectBox(h, tv) == IF tv = NULL THEN initRectBox ELSE h[tv]

\* every key's region test returns true on next_rect_box
EveryKeyTrue(next_rect_box, keys) ==
    \A i \in 1..Len(keys) :
        /\ keys[i].sk_strategy \in Strategies
        /\ RegionTest(keys[i].sk_strategy, next_rect_box,
                      getRangeBox(keys[i].bbox))

\* C21: a call of inner_consistent on a node that is not allTheSame reports
\* child q iff every key's region test returns true on nextRectBox(received
\* RectBox, prefix, q); the reported node numbers ascend, and the k-th
\* traversal value is the RectBox computed for the k-th reported node.
C21_ReportsExactlyTheAdmittedChildren ==
    [][(treePc' = "inner_consistent" /\ ~allTheSame' /\ scanResult' = "void")
        => LET rect_box == ReceivedRectBox(heap, parentAddr')
               centroid == getRangeBox(prefixDatum')
           IN  /\ \A q \in 0..3 :
                      q \in SeqRange(nodeNumbers') <=>
                          EveryKeyTrue(nextRectBox(rect_box, centroid, q),
                                       scankeys')
               /\ \A k \in 1..(Len(nodeNumbers') - 1) :
                      nodeNumbers'[k] < nodeNumbers'[k + 1]
               /\ Len(traversalValues') = Len(nodeNumbers')
               /\ \A k \in 1..Len(nodeNumbers') :
                      traversalValues'[k] =
                          nextRectBox(rect_box, centroid, nodeNumbers'[k])
      ]_vars

\* the call of inner_consistent that has just returned left the RectBox it
\* received as traversal value as it was
ParentKept ==
    parentAddr' # NULL =>
        /\ parentAddr' \in DOMAIN heap'
        /\ heap'[parentAddr'] = heap[parentAddr']

\* every child the call reports (every entry of out->nodeNumbers) has a
\* RectBox object allocated during the call, at an address that is neither
\* the parent's nor a sibling's
ReportedChildrenFresh ==
    /\ Len(childAddrs') = Len(nodeNumbers')
    /\ \A k \in 1..Len(nodeNumbers') :
           /\ childAddrs'[k] \notin DOMAIN heap
           /\ childAddrs'[k] \in DOMAIN heap'
           /\ childAddrs'[k] # parentAddr'
    /\ \A j, k \in 1..Len(nodeNumbers') :
           j # k => childAddrs'[j] # childAddrs'[k]

\* C22 as stated: whatever the node, a call of inner_consistent leaves the
\* RectBox it received as it was, and every child it reports gets a freshly
\* allocated RectBox, distinct from the parent's and from every sibling's.
C22_EveryReportedChildGetsRectBox ==
    [][treePc' = "inner_consistent"
        => /\ ParentKept
           /\ scanResult' = "void" => ReportedChildrenFresh
      ]_vars

\* C22, amended: a call of inner_consistent leaves the RectBox it received
\* as it was; on a node that is not allTheSame every child it reports gets a
\* freshly allocated RectBox, distinct from the parent's and from every
\* sibling's; on an allTheSame node it reports every child, allocates no
\* RectBox and returns no traversal value.
C22_ParentKeptChildrenFresh ==
    [][treePc' = "inner_consistent"
        => /\ ParentKept
           /\ (scanResult' = "void" /\ ~allTheSame') => ReportedChildrenFresh
           /\ allTheSame' =>
                 /\ nodeNumbers' = <<0, 1, 2, 3>>
                 /\ childAddrs' = <<>>
                 /\ heap' = heap
      ]_vars

\* a call on a child node has left out quadrant 0, whose RectBox it freed,
\* and reported two later quadrants
C22_Witness ==
    /\ treePc = "inner_consistent" /\ ~allTheSame /\ scanResult = "void"
    /\ parentAddr # NULL
    /\ Len(childAddrs) >= 2
    /\ nodeNumbers[1] > 0
    /\ heap[childAddrs[1]] # heap[parentAddr]

\* the eight directional strategies
DirectionalStrategies ==
    {"RTLeft", "RTOverLeft", "RTRight", "RTOverRight",
     "RTAbove", "RTOverAbove", "RTBelow", "RTOverBelow"}

\* leaf_consistent examines key i (enters the loop's iteration i): for every
\* key before it, spg_box_quad_get_scankey_bbox knew the subtype, the switch
\* knew the strategy, and the exact test passed
Examined(leaf, keys, i) ==
    \A j \in 1..(i - 1) :
        /\ keys[j].sk_subtype \in Subtypes
        /\ keys[j].sk_strategy \in Strategies
        /\ ExactTest(keys[j].sk_strategy, leaf, keys[j].bbox)

\* C24: a call of leaf_consistent that returns, returns true iff the leaf
\* box satisfies the exact predicate of every key; out->recheck is false
\* when every key is box-typed, and is true only when (and whenever) an
\* examined polygon-typed key has a strategy outside the eight directional
\* ones.
C24_LeafResultAndRecheck ==
    (treePc = "leaf_consistent" /\ scanResult # "error") =>
        /\ scanResult = "true" <=>
               \A i \in 1..Len(scankeys) :
                   /\ scankeys[i].sk_strategy \in Strategies
                   /\ ExactTest(scankeys[i].sk_strategy, leafDatum,
                                scankeys[i].bbox)
        /\ (\A i \in 1..Len(scankeys) : scankeys[i].sk_subtype = "BOXOID")
               => recheck = FALSE
        /\ recheck = TRUE <=>
               \E i \in 1..Len(scankeys) :
                   /\ Examined(leafDatum, scankeys, i)
                   /\ scankeys[i].sk_subtype = "POLYGONOID"
                   /\ scankeys[i].sk_strategy \notin DirectionalStrategies

\* a leaf passed a directional polygon-typed key and then an overlap
\* polygon-typed key: true with recheck set
C24_Witness ==
    /\ treePc = "leaf_consistent" /\ scanResult = "true"
    /\ Len(scankeys) = 2
    /\ scankeys[1].sk_subtype = "POLYGONOID"
    /\ scankeys[1].sk_strategy \in DirectionalStrategies
    /\ scankeys[2].sk_subtype = "POLYGONOID"
    /\ scankeys[2].sk_strategy = "RTOverlap"
    /\ recheck = TRUE

\* a call on a child node with two keys has reported some children and left
\* out one that only the second key rejects
C21_Witness ==
    /\ treePc = "inner_consistent" /\ ~allTheSame /\ scanResult = "void"
    /\ parentAddr # NULL
    /\ Len(scankeys) = 2
    /\ Len(nodeNumbers) >= 2
    /\ \E q \in 0..3 :
          LET next_rect_box == nextRectBox(heap[parentAddr],
                                           getRangeBox(prefixDatum), q)
          IN  /\ q \notin SeqRange(nodeNumbers)
              /\ EveryKeyTrue(next_rect_box, SubSeq(scankeys, 1, 1))
              /\ ~EveryKeyTrue(next_rect_box, scankeys)

-----------------------------------------------------------------------------
(* More claims about picksplit, choose and the scan of the node they fill  *)

\* C23: the prefix picksplit has written is a square [m, M] x [m, M] with
\* m <= low.x, m <= low.y, M >= high.x and M >= high.y for every input box.
C23_PrefixSquareBoundsInputs ==
    treePc \in {"inner", "scanned"} =>
        LET m == prefixDatum.low.x
            M == prefixDatum.high.x
        IN  /\ prefixDatum = Box(m, m, M, M)
            /\ \A i \in 1..Len(datums) :
                   /\ m <= datums[i].low.x /\ m <= datums[i].low.y
                   /\ M >= datums[i].high.x /\ M >= datums[i].high.y

\* C27: picksplit has read its four sorted arrays only at the indices
\* 0 .. nTuples - 1.
C27_SortedArraysReadInBounds ==
    treePc \in {"inner", "scanned"} =>
        \A r \in arrayReads : r[2] \in 0..(Len(datums) - 1)

\* C25: at the inner node a scan has reached, the RectBox inner_consistent
\* computes for child n contains, as a 4-D point, every box that picksplit
\* or choose has routed to child n.
C25_ChildRectBoxHoldsRoutedBoxes ==
    (treePc = "scanned" /\ ~allTheSame) =>
        \A n \in DOMAIN nodes :
            \A b \in nodes[n] :
                BoxInRectBox(b, nextRectBox(initRectBox,
                                            getRangeBox(prefixDatum), n))

\* C26: on a node that is not allTheSame, the node number choose returns for
\* a box is getQuadrant(prefix, box), the number picksplit gives the box
\* under the same prefix, whatever levelAdd is.
C26_ChooseAgreesWithPicksplit ==
    ChoseNode => nodeN = getQuadrant(prefixDatum, leafDatum)

\* the operands of "log2(currBoxLength / newElementRadius)" in choose for a
\* prefix and a new box: s = currBoxLength in units, r = newElementRadius
\* in half units (twice the double the code holds)
LogOperands(prefix, box) ==
    LET centroidWidth  == IntSide(prefix.low.x, prefix.high.x)
        centroidHeight == IntSide(prefix.low.y, prefix.high.y)
        boxWidth       == IntSide(box.low.x, box.high.x)
        boxHeight      == IntSide(box.low.y, box.high.y)
    IN  [s |-> IF centroidWidth >= centroidHeight
               THEN centroidWidth ELSE centroidHeight,
         r |-> IF boxWidth >= boxHeight THEN boxWidth ELSE boxHeight]

\* C29: whenever choose has evaluated log2(s / r), on a node that is not
\* allTheSame, r > 0 and s > 0.
C29_LogOperandsPositive ==
    ChoseNode =>
        /\ LogOperands(prefixDatum, leafDatum).r > 0
        /\ LogOperands(prefixDatum, leafDatum).s > 0

-----------------------------------------------------------------------------
(* More claims about gistSplitByKey                                        *)

\* C13: after the mixed-null branch on column attno, group NW holds exactly
\* the positions that are NULL in that column, and NE, SW and SE hold only
\* positions that are not NULL in it.
C13_MixedNullsAllInNW ==
    (splitPc = "done" /\ branch = "mixed") =>
        /\ SeqRange(splitVector.spl_NW) = {i \in 1..len : isNull[i][attno]}
        /\ Len(splitVector.spl_NW) = Cardinality(SeqRange(splitVector.spl_NW))
        /\ \A i \in SeqRange(splitVector.spl_NE) \cup SeqRange(splitVector.spl_SW)
                    \cup SeqRange(splitVector.spl_SE) : ~isNull[i][attno]

C13_Witness ==
    /\ splitPc = "done"
    /\ branch = "mixed"
    /\ len = 4
    /\ splitVector = [spl_NW |-> <<1, 3>>, spl_NE |-> <<>>, spl_SW |-> <<4>>,
                       spl_SE |-> <<2>>]

\* C28: after the mixed-null branch on a column in which at least three
\* entries are not NULL, each of NE, SW and SE holds at least one entry.
C28_MixedNullsFillThreeGroups ==
    (/\ splitPc = "done" /\ branch = "mixed"
     /\ Cardinality({i \in 1..len : ~isNull[i][attno]}) >= 3)
        => /\ splitVector.spl_NE # <<>>
           /\ splitVector.spl_SW # <<>>
           /\ splitVector.spl_SE # <<>>

\* C14: gistSplitByKey terminates: every recursive call is made for column
\* attno + 1 < natts, so the column index only ever grows by one, the depth
\* of the recursion (attno + 1) never exceeds natts, and the top-level call
\* returns.
C14_SplitTerminatesWithinNatts ==
    /\ [](attno < natts)
    /\ [][attno' # attno => (attno' = attno + 1 /\ attno' < natts)]_vars
    /\ <>(splitPc = "done")

C14_Witness ==
    /\ splitPc = "done"
    /\ natts = MaxAtts
    /\ attno = natts - 1

\* no group of sv ends in the old API's end-of-group marker
NoMarker(sv) ==
    \A g \in Groups : InvalidOffsetNumber \notin SeqRange(GroupSeq(sv, g))

\* C17: when no entry is NULL in the column being split and the opclass
\* method returns four non-empty groups without end-of-group markers, the
\* four groups gistSplitByKey returns are the method's groups, unchanged.
C17_UserSplitReturnedUnchanged ==
    (splitPc = "done" /\ branch = "user" /\ NoMarker(userSplit))
        => splitVector = userSplit

C17_Witness ==
    /\ splitPc = "done"
    /\ branch = "user"
    /\ natts = 2
    /\ len = 4
    /\ userSplit = [spl_NW |-> <<2>>, spl_NE |-> <<4>>, spl_SW |-> <<1>>,
                     spl_SE |-> <<3>>]
    /\ splitVector = userSplit

\* C18: when the split on column attno leaves don't-care entries and a
\* further column exists, gistSplitByKey has made a sub-split of exactly
\* those entries (its map[] lists them) before it returns.
C18_DontCaresAreSubSplit ==
    (/\ splitPc = "done"
     /\ branch \in {"user", "generic"}
     /\ attno + 1 < natts
     /\ zeroPenalty # {})
        => SeqRange(subSplitMap) = zeroPenalty

\* C19: a frame entered on a column that is NULL in every entry marks the
\* column NULL in all four groups; then, if a further column exists, it
\* enters the frame of the next column on the same entries in the same
\* order, and otherwise it applies gistSplitQuarters to them and returns.
C19_AllNullColumnIsPassedOver ==
    [][(splitPc = "call" /\ \A i \in 1..len : isNull[i][attno]) =>
          /\ \A g \in Groups : spl_isnull'[g][attno]
          /\ len' = len
          /\ isNull' = isNull
          /\ IF attno + 1 < natts
             THEN /\ attno' = attno + 1
                  /\ splitPc' = "call"
                  /\ splitVector' = splitVector
             ELSE /\ attno' = attno
                  /\ splitPc' = "done"
                  /\ splitVector' = gistSplitQuarters(len)]_vars

C19_Witness ==
    /\ splitPc = "done"
    /\ branch = "quarters"
    /\ natts = 2
    /\ attno = 1
    /\ len = 4
    /\ \A g \in Groups : spl_isnull[g][0] /\ spl_isnull[g][1]

\* C20: when a top-level call on an index of more than one column has
\* returned, the union key of every column of every group is the union over
\* exactly the group's members (those not NULL in the column; the key is
\* NULL when there is none), no member being left out as a don't-care.
C20_UnionKeysCoverFinalMembers ==
    (splitPc = "done" /\ natts > 1) =>
        \A g \in Groups : \A a \in 0..(natts - 1) :
            /\ spl_attr[g][a] =
                  {i \in 1..len : /\ \E k \in 1..Len(GroupSeq(splitVector, g)) :
                                        GroupSeq(splitVector, g)[k] = i
                                  /\ ~isNull[i][a]}
            /\ spl_isnull[g][a] = (spl_attr[g][a] = {})

C20_Witness ==
    /\ splitPc = "done"
    /\ branch = "mixed"
    /\ natts = 2
    /\ attno = 0
    /\ splitVector.spl_NW = <<1, 2>>
    /\ spl_attr["NW"][1] = {2}
    /\ spl_attr["NE"][0] = {3}
    /\ spl_isnull["NW"][0]

-----------------------------------------------------------------------------
(* Claims about the quartering functions, checked under SpecLongPage       *)

FourNonEmptyGroups(sv) ==
    /\ Len(sv.spl_NW) > 0
    /\ Len(sv.spl_NE) > 0
    /\ Len(sv.spl_SW) > 0
    /\ Len(sv.spl_SE) > 0

\* C11: genericPickSplit leaves four non-empty groups whenever it is given at
\* least four entries.
C11_GenericPickSplitFourNonEmpty ==
    (splitPc = "done" /\ branch = "generic" /\ len >= 4)
        => FourNonEmptyGroups(splitVector)

C11_Witness ==
    /\ splitPc = "done"
    /\ branch = "generic"
    /\ len = 7
    /\ splitVector = [spl_NW |-> <<1>>, spl_NE |-> <<2, 3>>,
                       spl_SW |-> <<4, 5>>, spl_SE |-> <<6, 7>>]

\* C12: gistSplitQuarters leaves four non-empty groups whenever it is given
\* at least four entries.
C12_SplitQuartersFourNonEmpty ==
    (splitPc = "done" /\ branch = "quarters" /\ len >= 4)
        => FourNonEmptyGroups(splitVector)

-----------------------------------------------------------------------------
(* Claims about nextRectBox, checked under SpecTraverse                    *)

\* interval n is interval r with its low bound (bit set) or its high bound
\* (bit clear) replaced by c, the other bound kept
OneBoundSet(r, n, isSet, c) ==
    IF isSet THEN n.low = c /\ n.high = r.high
             ELSE n.high = c /\ n.low = r.low

\* C16: nextRectBox(R, C, q) replaces exactly one bound of each of the four
\* intervals of R and keeps the other four: for the bits 0x8, 0x4, 0x2, 0x1
\* (x-left, x-right, y-left, y-right) a set bit replaces the low bound and a
\* clear bit the high bound, by the centroid's low.x, high.x, low.y, high.y.
\* Stated for the RectBox R reached by any descent, every centroid and every
\* quadrant.
C16_NextRectBoxSetsOneBoundPerInterval ==
    \A c \in BoxesUpTo(MaxTravCoord), q \in 0..15 :
        LET n == nextRectBox(traversalValue, getRangeBox(c), q)
        IN  /\ OneBoundSet(traversalValue.range_box_x.left, n.range_box_x.left,
                           (q \div 8) % 2 = 1, c.low.x)
            /\ OneBoundSet(traversalValue.range_box_x.right, n.range_box_x.right,
                           (q \div 4) % 2 = 1, c.high.x)
            /\ OneBoundSet(traversalValue.range_box_y.left, n.range_box_y.left,
                           (q \div 2) % 2 = 1, c.low.y)
            /\ OneBoundSet(traversalValue.range_box_y.right, n.range_box_y.right,
                           q % 2 = 1, c.high.y)

\* two descents about the box (0,0)-(0.5,0.5): quadrant 10 = 0b1010 sets the
\* bounds x.left.low, x.right.high, y.left.low, y.right.high; quadrant
\* 5 = 0b0101 then sets the other four
C16_Witness ==
    /\ travDepth = 2
    /\ traversalValue =
          [range_box_x |-> [left  |-> [low |-> 0, high |-> 0],
                            right |-> [low |-> 1, high |-> 1]],
           range_box_y |-> [left  |-> [low |-> 0, high |-> 0],
                            right |-> [low |-> 1, high |-> 1]]]

=============================================================================
